---- MODULE Spec2Model ----
(***************************************************************************)
(* The css selector builder of src/src/05-objects-tasks.js: the class      *)
(* SelectorBuilder (constructor, add, the six append methods, combine,     *)
(* stringify) and the facade object cssSelectorBuilder.                    *)
(*                                                                         *)
(* The program is single-threaded: a behaviour is a sequence of calls a    *)
(* caller makes on the facade and on the builders it got from it.  Every   *)
(* call is one step.  A builder is an object on the heap, named by its     *)
(* index in the sequence heap.                                             *)
(***************************************************************************)
EXTENDS Integers, Sequences, FiniteSets, TLC

\* ------------------------------------------------------------------ bounds

\* The number of calls a behaviour makes.
MaxOps == 3

\* The texts a caller passes as a fragment's value.
Values == {"a", "bc"}

\* The texts a caller passes as a combinator: two documented tokens and one
\* that is not among ' ', '+', '~', '>'.
Combinators == {" ", "+", "xy"}

\* ------------------------------------------------------------------- state

VARIABLES
    heap,      \* the SelectorBuilder objects created so far, by reference
    lastCall,  \* the call the last step made
    result,    \* what that call gave back: a reference, a text or an exception
    hist,      \* per builder: what was appended to it, and which calls it saw
    ops        \* the number of calls made

vars == <<heap, lastCall, result, hist, ops>>

\* ------------------------------------------------- SelectorBuilder's fields

\* this.order (constructor)
order == <<"element", "id", "class", "attr", "pseudo-class", "pseudo-element">>

Categories == {order[i] : i \in 1..Len(order)}

\* this.error1, this.error2 (constructor)
error1 == "Selector parts should be arranged in the following order: element, id, class, attribute, pseudo-class, pseudo-element"

error2 == "Element, id and pseudo-element should not occur more then one time inside the selector"

\* The value of a property that was never assigned: the constructor sets no
\* this.current.
undefined == "undefined"

\* new SelectorBuilder()
SelectorBuilder ==
    [ selector   |-> "",
      combinator |-> "",
      current    |-> undefined,
      occurences |-> [c \in Categories |-> FALSE] ]

\* Array.prototype.indexOf, as add uses it on this.order: the zero-based
\* index of the first element equal to x, or -1.
indexOf(arr, x) ==
    IF \E i \in 1..Len(arr) : arr[i] = x
    THEN (CHOOSE i \in 1..Len(arr) :
              arr[i] = x /\ \A j \in 1..(i - 1) : arr[j] # x) - 1
    ELSE -1

\* ---------------------------------------------------------------------- add

\* add's first test: the type has occurred on this builder.
hasOccurred(this, type) == this.occurences[type]

\* Variants of the inner test: pseudo-element forgotten; class, or
\* pseudo-class, taken for a type that may occur once.
isUniqueTypeNoPseudoElement(type) == type = "element" \/ type = "id"

isUniqueTypeWithClass(type) ==
    type = "element" \/ type = "id" \/ type = "pseudo-element" \/ type = "class"

isUniqueTypeWithPseudoClass(type) ==
    type = "element" \/ type = "id" \/ type = "pseudo-element" \/ type = "pseudo-class"

\* add's inner test: the types that may occur once.
isUniqueType(type) == type = "element" \/ type = "id" \/ type = "pseudo-element"

\* A variant of the second test: off by one, so that a type may come right
\* before the current one.
isOutOfOrderOffByOne(this, type) ==
    indexOf(order, type) < indexOf(order, this.current) - 1

\* A variant of the second test: <= for <.
isOutOfOrderOrEqual(this, type) == indexOf(order, type) <= indexOf(order, this.current)

\* add's second test: the type comes before the current one in this.order.
isOutOfOrder(this, type) == indexOf(order, type) < indexOf(order, this.current)

\* A variant of the if/else chain: one colon for a pseudo-element.
fragmentOneColon(type, value) ==
    IF type = "id" THEN "#" \o value
    ELSE IF type = "class" THEN "." \o value
    ELSE IF type = "attr" THEN "[" \o value \o "]"
    ELSE IF type = "pseudo-class" THEN ":" \o value
    ELSE IF type = "pseudo-element" THEN ":" \o value
    ELSE value

\* The text add appends for a type and a value (the if/else chain).
fragment(type, value) ==
    IF type = "id" THEN "#" \o value
    ELSE IF type = "class" THEN "." \o value
    ELSE IF type = "attr" THEN "[" \o value \o "]"
    ELSE IF type = "pseudo-class" THEN ":" \o value
    ELSE IF type = "pseudo-element" THEN "::" \o value
    ELSE value

\* A variant of the assignments: the occurrence is not recorded.
addAssignNoOccurence(this, type, value) ==
    [this EXCEPT !.current = type,
                 !.selector = @ \o fragment(type, value)]

\* A variant of the assignments: the fragment is put in front of the text.
addAssignPrepend(this, type, value) ==
    [this EXCEPT !.current = type,
                 !.occurences[type] = TRUE,
                 !.selector = fragment(type, value) \o @]

\* The assignments add makes to this once both tests passed.
addAssign(this, type, value) ==
    [this EXCEPT !.current = type,
                 !.occurences[type] = TRUE,
                 !.selector = @ \o fragment(type, value)]

\* A variant of the return: no return statement, so undefined (no reference).
addReturnNothing(b) == 0

\* What add returns on builder b: this.
addReturn(b) == b

\* A variant of add: the fragment is appended before the tests, so a call
\* that throws has already changed the text.
addAppendsFirst(this, type, value) ==
    LET appended == [this EXCEPT !.selector = @ \o fragment(type, value)] IN
    IF hasOccurred(this, type) /\ isUniqueType(type)
    THEN [threw |-> TRUE, message |-> error2, this |-> appended]
    ELSE IF isOutOfOrder(this, type)
    THEN [threw |-> TRUE, message |-> error1, this |-> appended]
    ELSE [threw |-> FALSE, message |-> "", this |-> addAssign(this, type, value)]

\* A variant of add: the two tests in the other order.
addOrderTestFirst(this, type, value) ==
    IF isOutOfOrder(this, type)
    THEN [threw |-> TRUE, message |-> error1, this |-> this]
    ELSE IF hasOccurred(this, type) /\ isUniqueType(type)
    THEN [threw |-> TRUE, message |-> error2, this |-> this]
    ELSE [threw |-> FALSE, message |-> "", this |-> addAssign(this, type, value)]

\* add(type, value) on the object this: whether it threw and with which
\* message, and the object afterwards.
add(this, type, value) ==
    IF hasOccurred(this, type) /\ isUniqueType(type)
    THEN [threw |-> TRUE, message |-> error2, this |-> this]
    ELSE IF isOutOfOrder(this, type)
    THEN [threw |-> TRUE, message |-> error1, this |-> this]
    ELSE [threw |-> FALSE, message |-> "", this |-> addAssign(this, type, value)]

\* ---------------------------------------------------------------- stringify

stringify(this) == this.selector

\* ------------------------------------------------------------------ combine

\* A variant of combine's text: the combinator is not padded with spaces.
combineTextNoPadding(selector1, combinator, selector2) ==
    stringify(selector1) \o combinator \o stringify(selector2)

\* The text combine builds from its two operands and the combinator.
combineText(selector1, combinator, selector2) ==
    stringify(selector1) \o " " \o combinator \o " " \o stringify(selector2)

\* A variant of combine's assignments: the new text's validation state is
\* taken over from the right operand.
combineAssignInherit(this, selector1, combinator, selector2) ==
    [this EXCEPT !.combinator = combinator,
                 !.selector = combineText(selector1, combinator, selector2),
                 !.current = selector2.current,
                 !.occurences = selector2.occurences]

\* The assignments combine makes to this.
combineAssign(this, selector1, combinator, selector2) ==
    [this EXCEPT !.combinator = combinator,
                 !.selector = combineText(selector1, combinator, selector2)]

\* ------------------------------------------------------------ heap and calls

Refs == 1..Len(heap)

\* A variant of the store: one occurences object shared by all instances.
storeSharedOccurences(h, b, obj) ==
    [r \in DOMAIN h |->
        IF r = b THEN obj ELSE [h[r] EXCEPT !.occurences = obj.occurences]]

\* A variant of the store: one selector text shared by all instances.
storeSharedSelector(h, b, obj) ==
    [r \in DOMAIN h |->
        IF r = b THEN obj ELSE [h[r] EXCEPT !.selector = obj.selector]]

\* A method's assignments to this change the object this names.
store(h, b, obj) == [h EXCEPT ![b] = obj]

\* The history a new builder starts with.
NoHistory == [fragments |-> <<>>, combined |-> FALSE, stringified |-> FALSE]

Returned(b) == [kind |-> "return", ref |-> b, text |-> ""]

Thrown(message) == [kind |-> "throw", ref |-> 0, text |-> message]

Text(s) == [kind |-> "text", ref |-> 0, text |-> s]

AppendCall(op, facade, b, type, value) ==
    [op |-> op, facade |-> facade, self |-> b, type |-> type, value |-> value,
     left |-> 0, right |-> 0]

\* A call b.<method>(value) that delegates to add(type, value).  Whatever add
\* assigned to this before it returned or threw stays assigned.
callAdd(op, b, type, value) ==
    LET r == add(heap[b], type, value) IN
    /\ ops < MaxOps
    /\ ops' = ops + 1
    /\ lastCall' = AppendCall(op, FALSE, b, type, value)
    /\ heap' = store(heap, b, r.this)
    /\ IF r.threw
       THEN /\ result' = Thrown(r.message)
            /\ UNCHANGED hist
       ELSE /\ result' = Returned(addReturn(b))
            /\ hist' = [hist EXCEPT ![b].fragments = Append(@, <<type, value>>)]

\* A facade call cssSelectorBuilder.<method>(value):
\* new SelectorBuilder().<method>(value).
facadeAdd(op, type, value) ==
    LET b == Len(heap) + 1
        r == add(SelectorBuilder, type, value) IN
    /\ ops < MaxOps
    /\ ops' = ops + 1
    /\ lastCall' = AppendCall(op, TRUE, b, type, value)
    /\ IF r.threw
       THEN /\ result' = Thrown(r.message)
            /\ UNCHANGED <<heap, hist>>
       ELSE /\ result' = Returned(addReturn(b))
            /\ heap' = store(Append(heap, SelectorBuilder), b, r.this)
            /\ hist' = Append(hist, [NoHistory EXCEPT !.fragments = <<<<type, value>>>>])

\* ------------------------------------------------- SelectorBuilder's methods

element(b, value) == callAdd("element", b, "element", value)

id(b, value) == callAdd("id", b, "id", value)

class(b, value) == callAdd("class", b, "class", value)

attr(b, value) == callAdd("attr", b, "attr", value)

pseudoClass(b, value) == callAdd("pseudoClass", b, "pseudo-class", value)

pseudoElement(b, value) == callAdd("pseudoElement", b, "pseudo-element", value)

\* b.combine(selector1, combinator, selector2), which reads both operands
\* with stringify().
combine(b, s1, combinator, s2) ==
    /\ ops < MaxOps
    /\ ops' = ops + 1
    /\ lastCall' = [op |-> "combine", facade |-> FALSE, self |-> b, type |-> "",
                    value |-> combinator, left |-> s1, right |-> s2]
    /\ result' = Returned(b)
    /\ heap' = store(heap, b, combineAssign(heap[b], heap[s1], combinator, heap[s2]))
    /\ hist' = [r \in DOMAIN hist |->
                  [hist[r] EXCEPT !.combined = @ \/ r = b,
                                  !.stringified = @ \/ r \in {s1, s2}]]

\* b.stringify()
callStringify(b) ==
    /\ ops < MaxOps
    /\ ops' = ops + 1
    /\ lastCall' = [op |-> "stringify", facade |-> FALSE, self |-> b, type |-> "",
                    value |-> "", left |-> 0, right |-> 0]
    /\ result' = Text(stringify(heap[b]))
    /\ hist' = [hist EXCEPT ![b].stringified = TRUE]
    /\ UNCHANGED heap

\* ------------------------------------------------------- cssSelectorBuilder

cssSelectorBuilder_element(value) == facadeAdd("element", "element", value)

cssSelectorBuilder_id(value) == facadeAdd("id", "id", value)

cssSelectorBuilder_class(value) == facadeAdd("class", "class", value)

cssSelectorBuilder_attr(value) == facadeAdd("attr", "attr", value)

cssSelectorBuilder_pseudoClass(value) == facadeAdd("pseudoClass", "pseudo-class", value)

cssSelectorBuilder_pseudoElement(value) == facadeAdd("pseudoElement", "pseudo-element", value)

\* cssSelectorBuilder.combine(selector1, combinator, selector2):
\* new SelectorBuilder().combine(selector1, combinator, selector2).
cssSelectorBuilder_combine(s1, combinator, s2) ==
    LET b == Len(heap) + 1 IN
    /\ ops < MaxOps
    /\ ops' = ops + 1
    /\ lastCall' = [op |-> "combine", facade |-> TRUE, self |-> b, type |-> "",
                    value |-> combinator, left |-> s1, right |-> s2]
    /\ result' = Returned(b)
    /\ heap' = store(Append(heap, SelectorBuilder), b,
                     combineAssign(SelectorBuilder, heap[s1], combinator, heap[s2]))
    /\ hist' = Append([r \in DOMAIN hist |->
                          [hist[r] EXCEPT !.stringified = @ \/ r \in {s1, s2}]],
                      [NoHistory EXCEPT !.combined = TRUE])

\* ------------------------------------------------------------ specification

NoCall == [op |-> "", facade |-> FALSE, self |-> 0, type |-> "", value |-> "",
           left |-> 0, right |-> 0]

Init ==
    /\ heap = <<>>
    /\ hist = <<>>
    /\ lastCall = NoCall
    /\ result = [kind |-> "none", ref |-> 0, text |-> ""]
    /\ ops = 0

Next ==
    \/ \E v \in Values : cssSelectorBuilder_element(v)
    \/ \E v \in Values : cssSelectorBuilder_id(v)
    \/ \E v \in Values : cssSelectorBuilder_class(v)
    \/ \E v \in Values : cssSelectorBuilder_attr(v)
    \/ \E v \in Values : cssSelectorBuilder_pseudoClass(v)
    \/ \E v \in Values : cssSelectorBuilder_pseudoElement(v)
    \/ \E s1 \in Refs, s2 \in Refs, c \in Combinators : cssSelectorBuilder_combine(s1, c, s2)
    \/ \E b \in Refs, v \in Values : element(b, v)
    \/ \E b \in Refs, v \in Values : id(b, v)
    \/ \E b \in Refs, v \in Values : class(b, v)
    \/ \E b \in Refs, v \in Values : attr(b, v)
    \/ \E b \in Refs, v \in Values : pseudoClass(b, v)
    \/ \E b \in Refs, v \in Values : pseudoElement(b, v)
    \/ \E b \in Refs, s1 \in Refs, s2 \in Refs, c \in Combinators : combine(b, s1, c, s2)
    \/ \E b \in Refs : callStringify(b)

Spec == Init /\ [][Next]_vars

\* ===================================================================
\* Properties
\* ===================================================================

\* The fixed order and the two fixed messages, as the specification gives them.
CategoryOrder == <<"element", "id", "class", "attr", "pseudo-class", "pseudo-element">>

Singletons == {"element", "id", "pseudo-element"}

OrderMessage == "Selector parts should be arranged in the following order: element, id, class, attribute, pseudo-class, pseudo-element"

DuplicateMessage == "Element, id and pseudo-element should not occur more then one time inside the selector"

\* The position of a category in the fixed order, 1..6.
Pos(c) == CHOOSE i \in 1..Len(CategoryOrder) : CategoryOrder[i] = c

\* The position of the category appended last, 0 when nothing was appended.
LastPos(frs) == IF frs = <<>> THEN 0 ELSE Pos(frs[Len(frs)][1])

\* The category occurs among the fragments appended.
Seen(frs, c) == \E i \in 1..Len(frs) : frs[i][1] = c

\* How often the category occurs among the fragments appended.
Count(frs, c) == Cardinality({i \in 1..Len(frs) : frs[i][1] = c})

\* The format of a fragment, as the specification's table gives it.
Formatted(c, v) ==
    CASE c = "element" -> v
      [] c = "id" -> "#" \o v
      [] c = "class" -> "." \o v
      [] c = "attr" -> "[" \o v \o "]"
      [] c = "pseudo-class" -> ":" \o v
      [] c = "pseudo-element" -> "::" \o v

\* The formatted fragments, concatenated in call order with no separators.
RECURSIVE Concatenated(_)
Concatenated(frs) ==
    IF frs = <<>> THEN ""
    ELSE Concatenated(SubSeq(frs, 1, Len(frs) - 1))
             \o Formatted(frs[Len(frs)][1], frs[Len(frs)][2])

\* A valid ordering: positions never decrease, and only class and attr repeat.
ValidOrdering(frs) ==
    \A i \in 1..(Len(frs) - 1) :
        \/ Pos(frs[i][1]) < Pos(frs[i + 1][1])
        \/ frs[i][1] = frs[i + 1][1] /\ frs[i][1] \in {"class", "attr"}

\* The step is a call of one of the six appends (on a builder or on the facade).
AppendStep == lastCall'.type \in Categories

\* The step is a call of one of the six appends on an existing builder.
MethodAppendStep == AppendStep /\ ~lastCall'.facade

\* The fragments the called builder held before the step: none for the new
\* builder of a facade call.
FragmentsBefore ==
    IF lastCall'.facade THEN <<>> ELSE hist[lastCall'.self].fragments

\* The last call was an append on an existing builder.
WasMethodAppend == lastCall.type \in Categories /\ ~lastCall.facade

\* C1: an append that does not repeat an already appended element, id or
\* pseudo-element throws the out-of-order error, with the fixed message, if
\* and only if its category's position is strictly less than the position of
\* the category appended last; the first append on a fresh builder never
\* throws it.
C1_OutOfOrderIff ==
    [][AppendStep /\ ~(lastCall'.type \in Singletons
                        /\ Seen(FragmentsBefore, lastCall'.type))
         => /\ (result' = Thrown(OrderMessage))
                  <=> (Pos(lastCall'.type) < LastPos(FragmentsBefore))
            /\ FragmentsBefore = <<>> => result'.kind = "return"]_vars

\* id().class().element() has thrown the out-of-order error.
C1_Witness ==
    /\ WasMethodAppend
    /\ lastCall.type = "element"
    /\ Len(hist[lastCall.self].fragments) = 2
    /\ hist[lastCall.self].fragments[1][1] = "id"
    /\ hist[lastCall.self].fragments[2][1] = "class"
    /\ result = Thrown(OrderMessage)

\* C2: a second append of element, of id or of pseudo-element on the same
\* builder throws the duplicate-singleton error, with the fixed message,
\* whatever was appended in between.
C2_DuplicateSingletonThrows ==
    [][MethodAppendStep /\ lastCall'.type \in Singletons
                        /\ Seen(FragmentsBefore, lastCall'.type)
         => result' = Thrown(DuplicateMessage)]_vars

\* A second element, after another fragment in between, has thrown the
\* duplicate-singleton error.
C2_Witness ==
    /\ WasMethodAppend
    /\ lastCall.type = "element"
    /\ Len(hist[lastCall.self].fragments) = 2
    /\ hist[lastCall.self].fragments[1][1] = "element"
    /\ result = Thrown(DuplicateMessage)

\* C3: on a builder a facade append created and only appends changed, an
\* append that keeps the sequence of appends a valid ordering does not throw,
\* and stringify() then is the concatenation, in call order and with no
\* separators, of the formatted fragments.
C3_ValidOrderingConcatenates ==
    [][(/\ AppendStep
        /\ lastCall'.facade \/ ~hist[lastCall'.self].combined
        /\ ValidOrdering(Append(FragmentsBefore, <<lastCall'.type, lastCall'.value>>)))
         => /\ result'.kind = "return"
            /\ stringify(heap'[lastCall'.self])
                 = Concatenated(Append(FragmentsBefore,
                                       <<lastCall'.type, lastCall'.value>>))]_vars

\* A valid ordering of three fragments, a class repeated, has been built.
C3_Witness ==
    /\ WasMethodAppend
    /\ result.kind = "return"
    /\ ~hist[lastCall.self].combined
    /\ Len(hist[lastCall.self].fragments) = 3
    /\ ValidOrdering(hist[lastCall.self].fragments)
    /\ Count(hist[lastCall.self].fragments, "class") = 2
    /\ hist[lastCall.self].fragments[2][2] # hist[lastCall.self].fragments[3][2]

\* The step is a call of the facade's combine.
FacadeCombineStep == lastCall'.op = "combine" /\ lastCall'.facade

\* C4: the facade's combine(left, combinator, right) does not throw and
\* returns a builder whose stringify() is left.stringify() + ' ' + combinator
\* + ' ' + right.stringify(), for every combinator text and for operands that
\* are results of combine; with the combinator ' ' three spaces separate the
\* two texts.
C4_CombineText ==
    [][FacadeCombineStep
         => /\ result'.kind = "return"
            /\ result'.ref \in DOMAIN heap'
            /\ stringify(heap'[result'.ref])
                 = stringify(heap[lastCall'.left]) \o " " \o lastCall'.value
                       \o " " \o stringify(heap[lastCall'.right])
            /\ lastCall'.value = " "
                 => stringify(heap'[result'.ref])
                      = stringify(heap[lastCall'.left]) \o "   "
                            \o stringify(heap[lastCall'.right])]_vars

\* The facade's combine has been called with an operand that is itself the
\* result of a combine, and with a combinator outside the documented four.
C4_Witness ==
    /\ lastCall.op = "combine"
    /\ lastCall.facade
    /\ hist[lastCall.left].combined
    /\ ~hist[lastCall.right].combined
    /\ lastCall.value = "xy"
    /\ result.kind = "return"

\* The step appends, to an existing builder, the category that was appended
\* to it last.
TieStep ==
    /\ MethodAppendStep
    /\ FragmentsBefore # <<>>
    /\ Pos(lastCall'.type) = LastPos(FragmentsBefore)

\* C5 as stated: an append of the category appended last succeeds when the
\* category is class or attr and fails when it is element, id, pseudo-class
\* or pseudo-element.
C5_TieOnlyClassAttr ==
    [][TieStep => (result'.kind = "return" <=> lastCall'.type \in {"class", "attr"})]_vars

\* C5, amended: a fragment is accepted only if its position is not less than
\* the position of the category appended last, and an append of the category
\* appended last succeeds when the category is class, attr or pseudo-class
\* and fails when it is element, id or pseudo-element.
C5_TieClassAttrPseudoClass ==
    [][/\ MethodAppendStep /\ result'.kind = "return"
            => Pos(lastCall'.type) >= LastPos(FragmentsBefore)
       /\ TieStep
            => (result'.kind = "return"
                  <=> lastCall'.type \in {"class", "attr", "pseudo-class"})]_vars

\* A pseudo-class has been appended right after a pseudo-class.
C5_Witness ==
    /\ WasMethodAppend
    /\ lastCall.type = "pseudo-class"
    /\ result.kind = "return"
    /\ Len(hist[lastCall.self].fragments) >= 2
    /\ hist[lastCall.self].fragments[Len(hist[lastCall.self].fragments) - 1][1]
         = "pseudo-class"

\* C6: in every reachable state, whatever calls were made, the fragments
\* appended to a builder hold at most one element, at most one id and at most
\* one pseudo-element.
C6_AtMostOneSingleton ==
    \A b \in Refs : \A c \in Singletons : Count(hist[b].fragments, c) <= 1

\* A second element has been refused on a builder that holds one, after a
\* combine on that builder rewrote its text.
C6_Witness ==
    /\ WasMethodAppend
    /\ lastCall.type = "element"
    /\ result.kind = "throw"
    /\ hist[lastCall.self].combined
    /\ Count(hist[lastCall.self].fragments, "element") = 1

\* C7 as stated: once stringify() has been called on a builder, no later call
\* changes the builder's text.
C7_ImmutableAfterStringify ==
    [][\A b \in Refs : hist[b].stringified => stringify(heap'[b]) = stringify(heap[b])]_vars

\* C7, amended: stringify() returns the text and changes nothing of any
\* builder; once it has been called on a builder, the builder's text changes
\* only by a later successful append or combine on that same builder.
C7_ChangedOnlyByOwnAppendOrCombine ==
    [][/\ lastCall'.op = "stringify"
            => /\ result' = Text(stringify(heap[lastCall'.self]))
               /\ heap' = heap
       /\ \A b \in Refs :
            hist[b].stringified /\ stringify(heap'[b]) # stringify(heap[b])
              => /\ lastCall'.self = b
                 /\ ~lastCall'.facade
                 /\ lastCall'.type \in Categories \/ lastCall'.op = "combine"
                 /\ result' = Returned(b)]_vars

\* An append has changed the text of a builder after stringify() returned it.
C7_Witness ==
    /\ WasMethodAppend
    /\ result.kind = "return"
    /\ hist[lastCall.self].stringified
    /\ ~hist[lastCall.self].combined
    /\ Len(hist[lastCall.self].fragments) = 2

\* C8: an append of class, attr or pseudo-class never throws the
\* duplicate-singleton error, however often the category was appended.
C8_NoDuplicateErrorForRepeatable ==
    [][AppendStep /\ lastCall'.type \in {"class", "attr", "pseudo-class"}
         => result' # Thrown(DuplicateMessage)]_vars

\* A class has been appended to a builder that already held two.
C8_Witness ==
    /\ WasMethodAppend
    /\ lastCall.type = "class"
    /\ result.kind = "return"
    /\ Count(hist[lastCall.self].fragments, "class") = 3

\* The seen set of a builder: the categories its occurences mark.
SeenSet(this) == {c \in Categories : this.occurences[c]}

\* C9: a facade call creates a new builder, which holds only what the
\* delegated call gave it (its text, seen set and last category were empty
\* before), and no call changes the text, the seen set or the last category
\* of a builder other than the one it is made on.
C9_NoSharedState ==
    [][/\ lastCall'.facade
            => /\ lastCall'.self = Len(heap) + 1
               /\ DOMAIN heap' = 1..(Len(heap) + 1)
               /\ lastCall'.type \in Categories
                    => /\ stringify(heap'[lastCall'.self])
                            = Formatted(lastCall'.type, lastCall'.value)
                       /\ SeenSet(heap'[lastCall'.self]) = {lastCall'.type}
                       /\ heap'[lastCall'.self].current = lastCall'.type
               /\ lastCall'.op = "combine"
                    => /\ SeenSet(heap'[lastCall'.self]) = {}
                       /\ heap'[lastCall'.self].current = undefined
       /\ \A r \in Refs : r # lastCall'.self => heap'[r] = heap[r]]_vars

\* An append has been made on one of two builders that hold different
\* categories.
C9_Witness ==
    /\ WasMethodAppend
    /\ result.kind = "return"
    /\ Len(heap) = 2
    /\ SeenSet(heap[1]) # SeenSet(heap[2])
    /\ SeenSet(heap[3 - lastCall.self]) # {}
    /\ ~lastCall.type \in SeenSet(heap[3 - lastCall.self])

\* C10: a successful call of an append or of combine on a builder returns
\* that same builder and creates none, so that the call has accumulated on
\* the instance; stringify returns the text.
C10_ReturnsSameInstance ==
    [][/\ (lastCall'.type \in Categories \/ lastCall'.op = "combine")
             /\ result'.kind # "throw"
            => /\ result' = Returned(lastCall'.self)
               /\ ~lastCall'.facade => Len(heap') = Len(heap)
       /\ lastCall'.op = "stringify" => result'.kind = "text"]_vars

\* A chain of calls, two appends and a combine, has accumulated on one
\* builder, which the last call returned.
C10_Witness ==
    /\ lastCall.op = "combine"
    /\ ~lastCall.facade
    /\ result = Returned(lastCall.self)
    /\ Len(hist[lastCall.self].fragments) = 2

\* C11: the duplicate test comes before the order test: an append that both
\* repeats an already appended element, id or pseudo-element and has a
\* position strictly less than that of the category appended last throws the
\* duplicate-singleton error, not the out-of-order error.
C11_DuplicateBeforeOrder ==
    [][(/\ MethodAppendStep
        /\ lastCall'.type \in Singletons
        /\ Seen(FragmentsBefore, lastCall'.type)
        /\ Pos(lastCall'.type) < LastPos(FragmentsBefore))
         => /\ result'.kind = "throw"
            /\ result'.text = DuplicateMessage
            /\ result'.text # OrderMessage]_vars

\* element().id().element() has thrown the duplicate-singleton error.
C11_Witness ==
    /\ WasMethodAppend
    /\ lastCall.type = "element"
    /\ Len(hist[lastCall.self].fragments) = 2
    /\ hist[lastCall.self].fragments[1][1] = "element"
    /\ hist[lastCall.self].fragments[2][1] = "id"
    /\ result.kind = "throw"
    /\ result.text = DuplicateMessage

\* The text s is a prefix of the text t.
IsPrefix(s, t) == Len(s) <= Len(t) /\ SubSeq(t, 1, Len(s)) = s

\* The text the called builder held before the step: empty for the new
\* builder of a facade call.
TextBefore ==
    IF lastCall'.facade THEN "" ELSE stringify(heap[lastCall'.self])

\* The step is a call of combine (on a builder or on the facade).
CombineStep == lastCall'.op = "combine"

\* C12 as stated: for each of the six appends and for combine, the text the
\* builder held before the call is a prefix of the text it holds after.
C12_AppendOnly ==
    [][AppendStep \/ CombineStep
         => IsPrefix(TextBefore, stringify(heap'[lastCall'.self]))]_vars

\* C12, amended: for each of the six appends the text before the call is a
\* prefix of the text after it; combine replaces the builder's text by
\* left.stringify() + ' ' + combinator + ' ' + right.stringify(), which keeps
\* the text before as a prefix when that text was empty (as on the facade's
\* new builder) and otherwise only when the new text happens to begin
\* with it.
C12_AppendsExtendCombineReplaces ==
    [][/\ AppendStep => IsPrefix(TextBefore, stringify(heap'[lastCall'.self]))
       /\ CombineStep
            => /\ stringify(heap'[lastCall'.self])
                    = stringify(heap[lastCall'.left]) \o " " \o lastCall'.value
                          \o " " \o stringify(heap[lastCall'.right])
               /\ TextBefore = ""
                    => IsPrefix(TextBefore, stringify(heap'[lastCall'.self]))]_vars

\* combine, called on a builder that held a text, has left it a text that
\* does not begin with the one it held.
C12_Witness ==
    /\ lastCall.op = "combine"
    /\ ~lastCall.facade
    /\ lastCall.left # lastCall.self
    /\ lastCall.right # lastCall.self
    /\ hist[lastCall.self].fragments # <<>>
    /\ ~IsPrefix(Concatenated(hist[lastCall.self].fragments),
                 stringify(heap[lastCall.self]))

\* C13: an append that throws either error leaves the builder's text, last
\* category and seen set (and every other builder) as they were, so that the
\* text of a builder that only appends changed shows the accepted fragments
\* and no rejected one, and a later valid append succeeds on it.
C13_FailedAppendChangesNothing ==
    [][/\ AppendStep /\ result'.kind = "throw"
            => /\ result'.text \in {OrderMessage, DuplicateMessage}
               /\ heap' = heap
       /\ \A b \in DOMAIN heap' :
            ~hist'[b].combined
              => stringify(heap'[b]) = Concatenated(hist'[b].fragments)
       /\ (/\ MethodAppendStep
           /\ ValidOrdering(Append(FragmentsBefore,
                                   <<lastCall'.type, lastCall'.value>>)))
            => result' = Returned(lastCall'.self)]_vars

\* An append has thrown on a builder that holds two accepted fragments, and
\* the builder's text is that of the two.
C13_Witness ==
    /\ WasMethodAppend
    /\ result.kind = "throw"
    /\ ~hist[lastCall.self].combined
    /\ Len(hist[lastCall.self].fragments) = 2
    /\ stringify(heap[lastCall.self]) = Concatenated(hist[lastCall.self].fragments)

\* The categories among the fragments appended.
CategoriesOf(frs) == {frs[i][1] : i \in 1..Len(frs)}

\* C14: on every builder a per-category facade call created and only appends
\* changed, in every reachable state, the last category is marked seen,
\* every seen category has a position less than or equal to that of the last
\* category, the seen set is empty exactly when the last category is none,
\* and the seen set holds every category ever appended (no flag is cleared).
C14_LastCategorySeenAndGreatest ==
    \A b \in Refs :
        ~hist[b].combined
          => /\ heap[b].current # undefined => heap[b].current \in SeenSet(heap[b])
             /\ \A c \in SeenSet(heap[b]) :
                    heap[b].current # undefined /\ Pos(c) <= Pos(heap[b].current)
             /\ SeenSet(heap[b]) = {} <=> heap[b].current = undefined
             /\ SeenSet(heap[b]) = CategoriesOf(hist[b].fragments)

\* Three appends of three categories, the last a pseudo-element, have been
\* made on one builder.
C14_Witness ==
    /\ WasMethodAppend
    /\ ~hist[lastCall.self].combined
    /\ Cardinality(SeenSet(heap[lastCall.self])) = 3
    /\ heap[lastCall.self].current = "pseudo-element"

\* No call changes the text of a builder combine has filled, unless it is
\* made on that builder: the text is a snapshot of the operands' texts.
CombinedTextIsSnapshot ==
    \A r \in Refs :
        hist[r].combined /\ lastCall'.self # r
          => stringify(heap'[r]) = stringify(heap[r])

\* C15 as stated: combine(left, combinator, right) leaves left and right
\* unchanged (text, seen set, last category), and later calls on left or
\* right do not change the combined builder's text.
C15_CombineLeavesOperands ==
    [][/\ CombineStep
            => /\ heap'[lastCall'.left] = heap[lastCall'.left]
               /\ heap'[lastCall'.right] = heap[lastCall'.right]
       /\ CombinedTextIsSnapshot]_vars

\* C15, amended: combine(left, combinator, right) leaves left and right
\* unchanged (text, seen set, last category) when the builder it is called on
\* is neither of them, which is so for every call of the facade's combine;
\* and calls made on other builders, left and right among them, do not
\* change the combined builder's text.
C15_CombineLeavesOtherOperands ==
    [][/\ CombineStep
            => /\ \A o \in {lastCall'.left, lastCall'.right} :
                     o # lastCall'.self => heap'[o] = heap[o]
               /\ lastCall'.facade
                    => lastCall'.self \notin {lastCall'.left, lastCall'.right}
       /\ CombinedTextIsSnapshot]_vars

\* After the facade combined a builder with itself, an append has changed
\* that builder, and the combined builder still holds the text it was given.
C15_Witness ==
    /\ ops = 3
    /\ Len(heap) = 2
    /\ hist[2].combined
    /\ hist[1].stringified
    /\ WasMethodAppend
    /\ lastCall.self = 1
    /\ result.kind = "return"
    /\ ~IsPrefix(stringify(heap[1]), stringify(heap[2]))

\* The text s is a suffix of the text t.
IsSuffix(s, t) == Len(s) <= Len(t) /\ SubSeq(t, Len(t) - Len(s) + 1, Len(t)) = s

\* C16: the builder the facade's combine returns has an empty seen set and no
\* last category, whatever its operands hold; the first append on it, of any
\* category, succeeds and puts the formatted fragment directly after the
\* text combine gave it, which ends with the right operand's text.
C16_CombinedBuilderStartsClean ==
    [][/\ FacadeCombineStep
            => /\ SeenSet(heap'[lastCall'.self]) = {}
               /\ heap'[lastCall'.self].current = undefined
               /\ IsSuffix(stringify(heap[lastCall'.right]),
                           stringify(heap'[lastCall'.self]))
       /\ (/\ MethodAppendStep
           /\ hist[lastCall'.self].combined
           /\ FragmentsBefore = <<>>)
            => /\ result' = Returned(lastCall'.self)
               /\ stringify(heap'[lastCall'.self])
                    = TextBefore \o Formatted(lastCall'.type, lastCall'.value)]_vars

\* An element has been appended to the builder the facade combined from a
\* builder that holds an element.
C16_Witness ==
    /\ ops = 3
    /\ Len(heap) = 2
    /\ hist[2].combined
    /\ "element" \in SeenSet(heap[1])
    /\ WasMethodAppend
    /\ lastCall.self = 2
    /\ lastCall.type = "element"
    /\ result = Returned(2)
    /\ IsPrefix(stringify(heap[1]) \o " ", stringify(heap[2]))

====
